---- MODULE Spec2Model ----
(***************************************************************************)
(* A model of bin/download_gpad.py and bin/helpers.py: the monthly GPAD    *)
(* suppliers download.  Strings are TLA+ strings handled character by      *)
(* character (split, substring search, int parsing, csv quoting), python   *)
(* dicts are sequences of <<key, value>> pairs in insertion order, and a   *)
(* file is a record of its existence and the extents written to it.        *)
(***************************************************************************)
EXTENDS Integers, Sequences, FiniteSets, TLC

VARIABLES
    entry,            \* the function the caller invoked
    pc,               \* position of control
    err,              \* the exception raised ("" when none)
    calls,            \* the functions main has called, in order
    completed,        \* the functions called by main that returned normally
    iso_month,        \* argument: the month, "YYYY-MM"
    zip_file_path,    \* argument: None or Some(link)
    url,              \* download_gpad_zip_file: the month page's URL
    requests,         \* the GET requests issued so far, in order
    response,         \* the current requests.Response
    downloads,        \* get_download_link_from_response: the download cards
    scanned,          \* ... the number of cards the for loop has been through
    download_link,    \* the link the archive is fetched from
    chunks,           \* the chunks of response.iter_content still to write
    tmp_zip,          \* the file tmp/<month>.zip
    unzip_dir,        \* whether the directory tmp/<month> exists
    input,            \* main: the path of the data file
    reader,           \* process_data_file: the rows of the csv reader
    index,            \* ... the number of rows enumerated so far
    data,             \* ... dict gp_code -> (appointments_systems, main_system)
    gp_code_to_name,  \* ... dict gp_code -> gp_name
    written,          \* write_output_file: the number of items written
    output,           \* the file data/gp_suppliers.csv
    value,            \* get_main_system_from_value: its argument
    main_system       \* ... its result

vars == <<entry, pc, err, calls, completed, iso_month, zip_file_path, url,
          requests, response, downloads, scanned, download_link, chunks,
          tmp_zip, unzip_dir, input, reader, index, data, gp_code_to_name,
          written, output, value, main_system>>

(***************************************************************************)
(* Bounds of the model.                                                    *)
(***************************************************************************)
MaxTokens == 3      \* tokens of a composite label
MaxCards == 3       \* download cards on a page
MaxRows == 3        \* data rows of a table
MaxChunks == 2      \* full chunks of a response body

(***************************************************************************)
(* Python values.                                                          *)
(***************************************************************************)
None == <<>>
Some(x) == <<x>>

Min(S) == CHOOSE x \in S : \A y \in S : x <= y

\* the index of the first occurrence of the character c in s, 0 when none
Find(s, c) ==
    LET at == {i \in 1..Len(s) : SubSeq(s, i, i) = c}
    IN  IF at = {} THEN 0 ELSE Min(at)

\* python's `sub in s`
Contains(sub, s) ==
    \E i \in 1..(Len(s) - Len(sub) + 1) : SubSeq(s, i, i + Len(sub) - 1) = sub

\* python's s.split(sep) for a one-character sep: never empty, keeps empty tokens
RECURSIVE Split(_, _)
Split(s, sep) ==
    LET k == Find(s, sep)
    IN  IF k = 0
        THEN <<s>>
        ELSE <<SubSeq(s, 1, k - 1)>> \o Split(SubSeq(s, k + 1, Len(s)), sep)

\* python's sep.join(seq)
RECURSIVE Join(_, _)
Join(seq, sep) ==
    IF Len(seq) = 0 THEN ""
    ELSE IF Len(seq) = 1 THEN seq[1]
    ELSE seq[1] \o sep \o Join(Tail(seq), sep)

Digits == <<"0", "1", "2", "3", "4", "5", "6", "7", "8", "9">>

IsDigit(c) == \E d \in 1..10 : Digits[d] = c

DigitValue(c) == (CHOOSE d \in 1..10 : Digits[d] = c) - 1

\* whether python's int(s) accepts s (plain decimal digits)
IsInt(s) == Len(s) > 0 /\ \A i \in 1..Len(s) : IsDigit(SubSeq(s, i, i))

\* python's int(s) for a string of decimal digits
RECURSIVE ParseInt(_)
ParseInt(s) ==
    IF Len(s) = 0 THEN 0
    ELSE 10 * ParseInt(SubSeq(s, 1, Len(s) - 1)) + DigitValue(SubSeq(s, Len(s), Len(s)))

\* python's str(n) for n >= 0
RECURSIVE Str(_)
Str(n) == IF n < 10 THEN Digits[n + 1] ELSE Str(n \div 10) \o Digits[(n % 10) + 1]

(***************************************************************************)
(* helpers.py                                                              *)
(***************************************************************************)
MonthNames == <<"january", "february", "march", "april", "may", "june", "july",
                "august", "september", "october", "november", "december">>

\* month_to_name: the name, or the exception int() or the dict lookup raises
month_to_name(month) ==
    IF ~IsInt(month) THEN [raised |-> "ValueError", name |-> ""]
    ELSE IF ParseInt(month) \notin 1..12 THEN [raised |-> "KeyError", name |-> ""]
    ELSE [raised |-> "", name |-> MonthNames[ParseInt(month)]]

\* get_month_and_year_from_iso_month: [year, month] = iso_month.split("-")
get_month_and_year_from_iso_month(iso) ==
    LET parts == Split(iso, "-")
    IN  IF Len(parts) # 2 THEN [raised |-> "ValueError", month |-> "", year |-> ""]
        ELSE [raised |-> month_to_name(parts[2]).raised,
              month  |-> month_to_name(parts[2]).name,
              year   |-> parts[1]]

\* the functions helpers.py defines
HelpersDefs ==
    {"month_to_name", "get_month_and_year_from_iso_month", "get_data_file_paths",
     "get_main_system_from_value"}

\* a classifier that looks for the sentinel in two-token labels only
MainSystemTwoTokenOnly(v) ==
    LET systems == Split(v, "/")
    IN  IF Len(systems) = 2 /\ systems[1] = "EVERGREENLIFE" THEN systems[2]
        ELSE systems[1]

\* a classifier that never looks for the sentinel
MainSystemFirstToken(v) == Split(v, "/")[1]

get_main_system_from_value(v) ==
    LET systems == Split(v, "/")
    IN  IF Len(systems) = 1 THEN systems[1]
        ELSE IF systems[1] = "EVERGREENLIFE" THEN systems[2]
        ELSE IF systems[2] = "EVERGREENLIFE" THEN systems[1]
        ELSE systems[1]

(***************************************************************************)
(* download_gpad.py: constants, the inputs the environment can supply.     *)
(***************************************************************************)
BASE_URL ==
    "https://digital.nhs.uk/data-and-information/publications/statistical/appointments-in-general-practice"

OUTPUT_FILE == "data/gp_suppliers.csv"

chunk_size == 8192

\* the names download_gpad.py imports from helpers
ImportedNames ==
    {"get_data_file_path", "get_main_system_from_value",
     "get_month_and_year_from_iso_month"}

Entries ==
    {"script", "main", "process_data_file", "remove_tmp_files",
     "get_main_system_from_value"}

InMain == entry \in {"script", "main"}

\* --month: a valid month, a month that is no month, a string without "-"
Months == {"2025-10", "2025-13", "202510"}

\* --zip-file
OverrideLink == "https://files.digital.nhs.uk/override.zip"

NoFile == [exists |-> FALSE, content |-> <<>>]

\* what an earlier run that failed left behind
StaleFile == [exists |-> TRUE, content |-> <<[src |-> "stale", lo |-> 0, hi |-> 1]>>]

NoResponse == [status |-> 0, cards |-> <<>>, length |-> 0]

Statuses == {200, 404}

Titles == {"Annex 1 (CSV)", "CSV - Annex 1", "Annex 1 (XLSX)", "Summary (CSV)"}

\* the download cards of a page: a title each, and the link of the i-th card
CardLists ==
    UNION {{[i \in 1..n |->
                [title |-> t[i],
                 href  |-> "https://files.digital.nhs.uk/" \o Str(i) \o ".zip"]]
            : t \in [1..n -> Titles]} : n \in 0..MaxCards}

\* the lengths of a response body: around the multiples of the chunk size
BodyLengths == {k * chunk_size + r : k \in 0..MaxChunks, r \in {0, 1}}

Tokens == {"EVERGREENLIFE", "TPP", "EMIS", ""}

\* composite labels of up to MaxTokens tokens
Labels == UNION {{Join(t, "/") : t \in [1..n -> Tokens]} : n \in 1..MaxTokens}

Header == <<"REGION", "GP_CODE", "GP_NAME", "APPOINTMENT_SYSTEMS">>

\* the rows a data file can hold: four columns, or too few of them
DataRows ==
    {<<"R1", c, n, l>> : c \in {"A1", "B2"}, n \in {"Test Surgery", "Elm, Surgery"},
                         l \in {"EVERGREENLIFE/TPP", "EMIS"}}
    \cup {<<"R1", "A1">>}

\* the parsed content of a data file: empty, or a header and up to MaxRows rows
Tables ==
    {<<>>} \cup UNION {{<<Header>> \o r : r \in [1..n -> DataRows]} : n \in 0..MaxRows}

(***************************************************************************)
(* python dicts, in insertion order.                                       *)
(***************************************************************************)
Keys(d) == {d[i][1] : i \in 1..Len(d)}

Get(d, k) == d[CHOOSE i \in 1..Len(d) : d[i][1] = k][2]

\* data[k] = v: a new key goes last, a present key keeps its place
Set(d, k, v) ==
    IF k \in Keys(d)
    THEN [i \in 1..Len(d) |-> IF d[i][1] = k THEN <<k, v>> ELSE d[i]]
    ELSE Append(d, <<k, v>>)

\* the last row of a code wins
PutDataLastWins(d, gp_code, pair) == Set(d, gp_code, pair)

\* a new code goes first
PutDataInFront(d, gp_code, pair) ==
    IF gp_code \in Keys(d) THEN d ELSE <<<<gp_code, pair>>>> \o d

\* if gp_code not in data: data[gp_code] = (appointments_systems, main_system)
PutData(d, gp_code, pair) == IF gp_code \in Keys(d) THEN d ELSE Set(d, gp_code, pair)

\* the name recorded under the name instead of the code
PutNameByName(d, gp_code, gp_name) ==
    IF gp_name \in Keys(d) THEN d ELSE Set(d, gp_name, gp_name)

\* if gp_code not in gp_code_to_name: gp_code_to_name[gp_code] = gp_name
PutName(d, gp_code, gp_name) ==
    IF gp_code \in Keys(d) THEN d ELSE Set(d, gp_code, gp_name)

(***************************************************************************)
(* csv.writer, QUOTE_MINIMAL: a field holding the delimiter, the quote     *)
(* character or a line break is quoted, its quote characters doubled.      *)
(***************************************************************************)
RECURSIVE DoubleQuotes(_)
DoubleQuotes(f) ==
    IF Len(f) = 0 THEN ""
    ELSE (IF Head(f) = "\"" THEN "\"\"" ELSE Head(f)) \o DoubleQuotes(Tail(f))

CsvField(f) ==
    IF Contains(",", f) \/ Contains("\"", f) \/ Contains("\n", f) \/ Contains("\r", f)
    THEN "\"" \o DoubleQuotes(f) \o "\""
    ELSE f

CsvLine(row) == Join([i \in 1..Len(row) |-> CsvField(row[i])], ",")

(***************************************************************************)
(* files                                                                   *)
(***************************************************************************)
\* f.write(bytes): writing no bytes leaves the file as it is
Write(file, ext) ==
    IF ext.hi = ext.lo THEN file
    ELSE [file EXCEPT !.content = Append(@, ext)]

\* response.iter_content(chunk_size): the body in slices of at most chunk_size
RECURSIVE iter_content(_, _)
iter_content(from, length) ==
    IF from >= length THEN <<>>
    ELSE LET to == IF from + chunk_size < length THEN from + chunk_size ELSE length
         IN  <<[src |-> "body", lo |-> from, hi |-> to]>> \o iter_content(to, length)

(***************************************************************************)
(* The state a call starts in.                                             *)
(***************************************************************************)
StartPc(e) ==
    CASE e = "script" -> "import"
      [] e = "main" -> "main"
      [] e = "process_data_file" -> "process"
      [] e = "remove_tmp_files" -> "cleanup"
      [] e = "get_main_system_from_value" -> "classify"

Init ==
    /\ entry \in Entries
    /\ pc = StartPc(entry)
    /\ err = ""
    /\ calls = <<>>
    /\ completed = {}
    /\ iso_month \in (IF InMain THEN Months
                      ELSE IF entry = "remove_tmp_files" THEN {"2025-10"} ELSE {""})
    /\ zip_file_path \in (IF InMain THEN {None, Some(OverrideLink)} ELSE {None})
    /\ url = ""
    /\ requests = <<>>
    /\ response = NoResponse
    /\ downloads = <<>>
    /\ scanned = 0
    /\ download_link = None
    /\ chunks = <<>>
    /\ tmp_zip \in (IF InMain \/ entry = "remove_tmp_files"
                    THEN {NoFile, StaleFile} ELSE {NoFile})
    /\ unzip_dir \in (IF InMain \/ entry = "remove_tmp_files" THEN BOOLEAN ELSE {FALSE})
    /\ input = (IF entry = "process_data_file" THEN Some("tmp/2025-10/data.csv") ELSE None)
    /\ reader = <<>>
    /\ index = 0
    /\ data = <<>>
    /\ gp_code_to_name = <<>>
    /\ written = 0
    /\ output = NoFile
    /\ value \in (IF entry = "get_main_system_from_value" THEN Labels ELSE {""})
    /\ main_system = None

(***************************************************************************)
(* main: every stage sits in `try: ... except Exception as e: log; raise   *)
(* e`, so an exception of a stage ends the run; a function called directly *)
(* raises to its caller.                                                   *)
(***************************************************************************)
\* a handler that goes on to the cleanup, as a `finally` would
MainExceptThenCleanup == "cleanup"

\* where control is after main's handler has re-raised
MainExcept == "error"

Raised == IF InMain THEN MainExcept ELSE "raised"

\* where control is after a stage has returned: main's next statement
Returned(next) == IF InMain THEN next ELSE "returned"

Call(f) == IF InMain THEN Append(calls, f) ELSE calls

Complete(f) == IF InMain THEN completed \cup {f} ELSE completed

\* from helpers import (...): the module does not load when a name is missing
ImportHelpers ==
    /\ pc = "import"
    /\ IF ImportedNames \subseteq HelpersDefs
       THEN pc' = "main" /\ err' = ""
       ELSE pc' = "error" /\ err' = "ImportError"
    /\ UNCHANGED <<entry, calls, completed, iso_month, zip_file_path, url, requests,
                   response, downloads, scanned, download_link, chunks, tmp_zip,
                   unzip_dir, input, reader, index, data, gp_code_to_name, written,
                   output, value, main_system>>

(***************************************************************************)
(* download_gpad_zip_file                                                  *)
(***************************************************************************)
\* the link is looked up on the month page whether or not one was supplied
NeedsLookupAlways(zip) == TRUE

\* if zip_file_path is None
NeedsLookup(zip) == zip = None

\* lines 75-78 and 87-91: the page URL, then the branch on zip_file_path
DownloadStart ==
    /\ pc = "main"
    /\ calls' = Call("download_gpad_zip_file")
    /\ LET my == get_month_and_year_from_iso_month(iso_month)
       IN  IF my.raised # ""
           THEN /\ pc' = Raised
                /\ err' = my.raised
                /\ UNCHANGED <<url, download_link>>
           ELSE /\ url' = BASE_URL \o "/" \o my.month \o "-" \o my.year
                /\ err' = ""
                /\ IF NeedsLookup(zip_file_path)
                   THEN pc' = "get_page" /\ UNCHANGED download_link
                   ELSE pc' = "get_archive" /\ download_link' = zip_file_path
    /\ UNCHANGED <<entry, completed, iso_month, zip_file_path, requests, response,
                   downloads, scanned, chunks, tmp_zip, unzip_dir, input, reader,
                   index, data, gp_code_to_name, written, output, value, main_system>>

\* lines 80-81 and 106-107: GET the month page, raise_for_status, select the cards
GetPage ==
    /\ pc = "get_page"
    /\ requests' = Append(requests, url)
    /\ \E status \in Statuses, cards \in CardLists :
          /\ response' = [status |-> status, cards |-> cards, length |-> 0]
          /\ IF status >= 400
             THEN /\ pc' = Raised
                  /\ err' = "HTTPError"
                  /\ UNCHANGED downloads
             ELSE /\ pc' = "resolve"
                  /\ err' = ""
                  /\ downloads' = cards
    /\ scanned' = 0
    /\ UNCHANGED <<entry, calls, completed, iso_month, zip_file_path, url,
                   download_link, chunks, tmp_zip, unzip_dir, input, reader, index,
                   data, gp_code_to_name, written, output, value, main_system>>

\* a title with either marker
IsAnnex1OrCsv(title) == Contains("Annex 1", title) \/ Contains("CSV", title)

\* if "Annex 1" in download_title and "CSV" in download_title
IsAnnex1Csv(title) == Contains("Annex 1", title) /\ Contains("CSV", title)

\* lines 109-112: one turn of the for loop over the cards
ScanCard ==
    /\ pc = "resolve"
    /\ scanned < Len(downloads)
    /\ LET download == downloads[scanned + 1]
       IN  IF IsAnnex1Csv(download.title)
           THEN /\ download_link' = Some(download.href)
                /\ pc' = "link_returned"
                /\ UNCHANGED scanned
           ELSE /\ scanned' = scanned + 1
                /\ UNCHANGED <<download_link, pc>>
    /\ UNCHANGED <<entry, err, calls, completed, iso_month, zip_file_path, url,
                   requests, response, downloads, chunks, tmp_zip, unzip_dir, input,
                   reader, index, data, gp_code_to_name, written, output, value,
                   main_system>>

\* lines 114-119: the loop is over and nothing was returned
NoLink ==
    /\ pc = "resolve"
    /\ scanned = Len(downloads)
    /\ err' = (IF Len(downloads) = 0
               THEN "No downloads found."
               ELSE "Found " \o Str(Len(downloads))
                    \o " downloads. No Annex 1 CSV downloads found.")
    /\ pc' = "link_raised"
    /\ UNCHANGED <<entry, calls, completed, iso_month, zip_file_path, url, requests,
                   response, downloads, scanned, download_link, chunks, tmp_zip,
                   unzip_dir, input, reader, index, data, gp_code_to_name, written,
                   output, value, main_system>>

\* line 84: the resolver has returned to download_gpad_zip_file
LinkReturned ==
    /\ pc = "link_returned"
    /\ pc' = "get_archive"
    /\ downloads' = <<>>
    /\ scanned' = 0
    /\ UNCHANGED <<entry, err, calls, completed, iso_month, zip_file_path, url,
                   requests, response, download_link, chunks, tmp_zip, unzip_dir,
                   input, reader, index, data, gp_code_to_name, written, output,
                   value, main_system>>

\* lines 85-86: the resolver's exception, wrapped and raised again
LinkRaised ==
    /\ pc = "link_raised"
    /\ pc' = Raised
    /\ err' = "Error getting download link: " \o err
    /\ downloads' = <<>>
    /\ scanned' = 0
    /\ UNCHANGED <<entry, calls, completed, iso_month, zip_file_path, url, requests,
                   response, download_link, chunks, tmp_zip, unzip_dir, input, reader,
                   index, data, gp_code_to_name, written, output, value, main_system>>

\* lines 94-98: GET the archive, raise_for_status, open the file for writing
GetArchive ==
    /\ pc = "get_archive"
    /\ requests' = Append(requests, download_link[1])
    /\ \E status \in Statuses, length \in BodyLengths :
          /\ response' = [status |-> status, cards |-> <<>>, length |-> length]
          /\ IF status >= 400
             THEN /\ pc' = Raised
                  /\ err' = "HTTPError"
                  /\ UNCHANGED <<tmp_zip, chunks>>
             ELSE /\ pc' = "write_chunks"
                  /\ err' = ""
                  /\ tmp_zip' = [exists |-> TRUE, content |-> <<>>]
                  /\ chunks' = iter_content(0, length)
    /\ UNCHANGED <<entry, calls, completed, iso_month, zip_file_path, url, downloads,
                   scanned, download_link, unzip_dir, input, reader, index, data,
                   gp_code_to_name, written, output, value, main_system>>

\* lines 98-99: one turn of the loop over the chunks
WriteChunk ==
    /\ pc = "write_chunks"
    /\ chunks # <<>>
    /\ tmp_zip' = Write(tmp_zip, Head(chunks))
    /\ chunks' = Tail(chunks)
    /\ UNCHANGED <<entry, pc, err, calls, completed, iso_month, zip_file_path, url,
                   requests, response, downloads, scanned, download_link, unzip_dir,
                   input, reader, index, data, gp_code_to_name, written, output,
                   value, main_system>>

\* line 100: after the loop, f.write(response.content)
WriteContent ==
    /\ pc = "write_chunks"
    /\ chunks = <<>>
    /\ tmp_zip' = Write(tmp_zip, [src |-> "body", lo |-> 0, hi |-> response.length])
    /\ pc' = "downloaded"
    /\ UNCHANGED <<entry, err, calls, completed, iso_month, zip_file_path, url,
                   requests, response, downloads, scanned, download_link, chunks,
                   unzip_dir, input, reader, index, data, gp_code_to_name, written,
                   output, value, main_system>>

\* line 102 and the return to main
DownloadReturn ==
    /\ pc = "downloaded"
    /\ completed' = Complete("download_gpad_zip_file")
    /\ pc' = Returned("unzip")
    /\ url' = ""
    /\ response' = NoResponse
    /\ download_link' = None
    /\ UNCHANGED <<entry, err, calls, iso_month, zip_file_path, requests, downloads,
                   scanned, chunks, tmp_zip, unzip_dir, input, reader, index, data,
                   gp_code_to_name, written, output, value, main_system>>

(***************************************************************************)
(* unzip_gpad_zip_file                                                     *)
(***************************************************************************)
\* lines 123-127: the directory is made when absent, then the archive is opened
\* and extracted; zipfile raises on a file that is no archive
Unzip ==
    /\ pc = "unzip"
    /\ calls' = Call("unzip_gpad_zip_file")
    /\ unzip_dir' = TRUE
    /\ \E archive_ok \in BOOLEAN :
          IF archive_ok /\ tmp_zip.exists
          THEN /\ completed' = Complete("unzip_gpad_zip_file")
               /\ pc' = Returned("get_data_file_path")
               /\ err' = ""
          ELSE /\ pc' = Raised
               /\ err' = (IF tmp_zip.exists THEN "BadZipFile" ELSE "FileNotFoundError")
               /\ UNCHANGED completed
    /\ UNCHANGED <<entry, iso_month, zip_file_path, url, requests, response, downloads,
                   scanned, download_link, chunks, tmp_zip, input, reader, index, data,
                   gp_code_to_name, written, output, value, main_system>>

\* the path main expects of the helper it names
get_data_file_path(month) == "tmp/" \o month \o "/data.csv"

\* line 47, outside any try: the name is bound only if helpers defines it
GetDataFilePath ==
    /\ pc = "get_data_file_path"
    /\ IF "get_data_file_path" \in HelpersDefs
       THEN /\ input' = Some(get_data_file_path(iso_month))
            /\ pc' = "process"
            /\ err' = ""
       ELSE /\ pc' = "error"
            /\ err' = "NameError"
            /\ UNCHANGED input
    /\ UNCHANGED <<entry, calls, completed, iso_month, zip_file_path, url, requests,
                   response, downloads, scanned, download_link, chunks, tmp_zip,
                   unzip_dir, reader, index, data, gp_code_to_name, written, output,
                   value, main_system>>

(***************************************************************************)
(* process_data_file                                                       *)
(***************************************************************************)
\* lines 133-139: the empty dicts, the file opened and read
ProcessOpen ==
    /\ pc = "process"
    /\ calls' = Call("process_data_file")
    /\ data' = <<>>
    /\ gp_code_to_name' = <<>>
    /\ index' = 0
    /\ \/ /\ \E table \in Tables : reader' = table
          /\ pc' = "process_rows"
          /\ err' = ""
       \/ /\ pc' = Raised
          /\ err' = "FileNotFoundError"
          /\ UNCHANGED reader
    /\ UNCHANGED <<entry, completed, iso_month, zip_file_path, url, requests, response,
                   downloads, scanned, download_link, chunks, tmp_zip, unzip_dir, input,
                   written, output, value, main_system>>

\* lines 140-154: one turn of the loop over the rows
ProcessRow ==
    /\ pc = "process_rows"
    /\ index < Len(reader)
    /\ index' = index + 1
    /\ LET row == reader[index + 1]
       IN  IF index = 0
           THEN UNCHANGED <<pc, err, data, gp_code_to_name>>
           ELSE IF Len(row) < 4
           THEN /\ pc' = Raised
                /\ err' = "IndexError"
                /\ UNCHANGED <<data, gp_code_to_name>>
           ELSE LET gp_code == row[2]
                    gp_name == row[3]
                    appointments_systems == row[4]
                    system == get_main_system_from_value(appointments_systems)
                IN  /\ data' = PutData(data, gp_code, <<appointments_systems, system>>)
                    /\ gp_code_to_name' = PutName(gp_code_to_name, gp_code, gp_name)
                    /\ UNCHANGED <<pc, err>>
    /\ UNCHANGED <<entry, calls, completed, iso_month, zip_file_path, url, requests,
                   response, downloads, scanned, download_link, chunks, tmp_zip,
                   unzip_dir, input, reader, written, output, value, main_system>>

\* line 156: return data, gp_code_to_name; the caller hands both to
\* write_output_file (main, lines 50-56)
ProcessReturn ==
    /\ pc = "process_rows"
    /\ index = Len(reader)
    /\ completed' = Complete("process_data_file")
    /\ pc' = "write"
    /\ UNCHANGED <<entry, err, calls, iso_month, zip_file_path, url, requests, response,
                   downloads, scanned, download_link, chunks, tmp_zip, unzip_dir, input,
                   reader, index, data, gp_code_to_name, written, output, value,
                   main_system>>

(***************************************************************************)
(* write_output_file                                                       *)
(***************************************************************************)
\* lines 167-169: the file opened for writing, the header row written
WriteOpen ==
    /\ pc = "write"
    /\ calls' = Call("write_output_file")
    /\ output' = [exists |-> TRUE,
                  content |-> <<CsvLine(<<"GP Code", "GP Name", "Appointment Systems",
                                          "Main System">>)>>]
    /\ written' = 0
    /\ pc' = "write_rows"
    /\ UNCHANGED <<entry, err, completed, iso_month, zip_file_path, url, requests,
                   response, downloads, scanned, download_link, chunks, tmp_zip,
                   unzip_dir, input, reader, index, data, gp_code_to_name, value,
                   main_system>>

\* lines 171-173: [gp_code, gp_code_to_name[gp_code], appointment_systems, main_system]
OutputRow(gp_code, pair) == <<gp_code, Get(gp_code_to_name, gp_code), pair[1], pair[2]>>

\* lines 170-173: one turn of the loop over data.items()
WriteRow ==
    /\ pc = "write_rows"
    /\ written < Len(data)
    /\ written' = written + 1
    /\ LET gp_code == data[written + 1][1]
           pair == data[written + 1][2]
       IN  IF gp_code \notin Keys(gp_code_to_name)
           THEN /\ pc' = Raised
                /\ err' = "KeyError"
                /\ UNCHANGED output
           ELSE /\ output' = [output EXCEPT
                                !.content = Append(@, CsvLine(OutputRow(gp_code, pair)))]
                /\ UNCHANGED <<pc, err>>
    /\ UNCHANGED <<entry, calls, completed, iso_month, zip_file_path, url, requests,
                   response, downloads, scanned, download_link, chunks, tmp_zip,
                   unzip_dir, input, reader, index, data, gp_code_to_name, value,
                   main_system>>

\* line 174 and the return
WriteReturn ==
    /\ pc = "write_rows"
    /\ written = Len(data)
    /\ completed' = Complete("write_output_file")
    /\ pc' = Returned("cleanup")
    /\ UNCHANGED <<entry, err, calls, iso_month, zip_file_path, url, requests, response,
                   downloads, scanned, download_link, chunks, tmp_zip, unzip_dir, input,
                   reader, index, data, gp_code_to_name, written, output, value,
                   main_system>>

(***************************************************************************)
(* remove_tmp_files                                                        *)
(***************************************************************************)
\* lines 181-182: Path(zip_file_path).unlink() raises when the file is missing
RemoveZip ==
    /\ pc = "cleanup"
    /\ calls' = Call("remove_tmp_files")
    /\ IF tmp_zip.exists
       THEN /\ tmp_zip' = NoFile
            /\ pc' = "rmtree"
            /\ UNCHANGED err
       ELSE /\ pc' = Raised
            /\ err' = "FileNotFoundError"
            /\ UNCHANGED tmp_zip
    /\ UNCHANGED <<entry, completed, iso_month, zip_file_path, url, requests, response,
                   downloads, scanned, download_link, chunks, unzip_dir, input, reader,
                   index, data, gp_code_to_name, written, output, value, main_system>>

\* lines 183-185: shutil.rmtree(unzip_dir) raises when the directory is missing;
\* main then logs the end of the run (line 67)
RemoveDir ==
    /\ pc = "rmtree"
    /\ IF unzip_dir
       THEN /\ unzip_dir' = FALSE
            /\ completed' = Complete("remove_tmp_files")
            /\ pc' = Returned("done")
            /\ UNCHANGED err
       ELSE /\ pc' = Raised
            /\ err' = "FileNotFoundError"
            /\ UNCHANGED <<unzip_dir, completed>>
    /\ UNCHANGED <<entry, calls, iso_month, zip_file_path, url, requests, response,
                   downloads, scanned, download_link, chunks, tmp_zip, input, reader,
                   index, data, gp_code_to_name, written, output, value, main_system>>

(***************************************************************************)
(* get_main_system_from_value, called on its own                           *)
(***************************************************************************)
Classify ==
    /\ pc = "classify"
    /\ main_system' = Some(get_main_system_from_value(value))
    /\ pc' = "returned"
    /\ UNCHANGED <<entry, err, calls, completed, iso_month, zip_file_path, url,
                   requests, response, downloads, scanned, download_link, chunks,
                   tmp_zip, unzip_dir, input, reader, index, data, gp_code_to_name,
                   written, output, value>>

Next ==
    \/ ImportHelpers
    \/ DownloadStart
    \/ GetPage
    \/ ScanCard
    \/ NoLink
    \/ LinkReturned
    \/ LinkRaised
    \/ GetArchive
    \/ WriteChunk
    \/ WriteContent
    \/ DownloadReturn
    \/ Unzip
    \/ GetDataFilePath
    \/ ProcessOpen
    \/ ProcessRow
    \/ ProcessReturn
    \/ WriteOpen
    \/ WriteRow
    \/ WriteReturn
    \/ RemoveZip
    \/ RemoveDir
    \/ Classify

Spec == Init /\ [][Next]_vars

(***************************************************************************)
(* The classifier.                                                         *)
(***************************************************************************)
Sentinel == "EVERGREENLIFE"

Classified == entry = "get_main_system_from_value" /\ pc = "returned"

\* C1: a label of one token is returned unchanged; of two tokens, the second is
\* returned when the first is EVERGREENLIFE, and the first otherwise (the second
\* being EVERGREENLIFE or not).
C1_OneOrTwoTokens ==
    Classified =>
        LET t == Split(value, "/")
        IN  /\ Len(t) = 1 => main_system = Some(value)
            /\ Len(t) = 2 /\ t[1] = Sentinel => main_system = Some(t[2])
            /\ Len(t) = 2 /\ t[1] # Sentinel /\ t[2] = Sentinel => main_system = Some(t[1])
            /\ Len(t) = 2 /\ t[1] # Sentinel /\ t[2] # Sentinel => main_system = Some(t[1])

C1_Witness ==
    /\ Classified
    /\ value = "EVERGREENLIFE/TPP"
    /\ main_system = Some("TPP")

\* C2 as stated: a label of three or more tokens yields its first token, whatever
\* the tokens are.
C2_AlwaysFirstToken ==
    Classified /\ Len(Split(value, "/")) >= 3 => main_system = Some(Split(value, "/")[1])

\* C2, amended: a label of three or more tokens yields its second token when the
\* first is EVERGREENLIFE, and its first token otherwise.
C2_SecondAfterSentinel ==
    Classified /\ Len(Split(value, "/")) >= 3 =>
        LET t == Split(value, "/")
        IN  main_system = Some(IF t[1] = Sentinel THEN t[2] ELSE t[1])

C2_Witness ==
    /\ Classified
    /\ value = "EVERGREENLIFE/TPP/EMIS"
    /\ main_system = Some("TPP")

(***************************************************************************)
(* The aggregation and the output.                                         *)
(***************************************************************************)
\* the indices of the data rows the loop has been through without raising
Processed == {i \in 2..index : i <= Len(reader) /\ Len(reader[i]) >= 4}

CodesSeen == {reader[i][2] : i \in Processed}

FirstRow(code) == reader[Min({i \in Processed : reader[i][2] = code})]

MappingsHoldFirstRows ==
    /\ Keys(data) = CodesSeen
    /\ Keys(gp_code_to_name) = CodesSeen
    /\ \A code \in CodesSeen :
          /\ Get(data, code) =
                <<FirstRow(code)[4], get_main_system_from_value(FirstRow(code)[4])>>
          /\ Get(gp_code_to_name, code) = FirstRow(code)[3]

SeenRowChangesNothing ==
    (/\ pc = "process_rows"
     /\ index >= 1
     /\ index < Len(reader)
     /\ Len(reader[index + 1]) >= 4
     /\ reader[index + 1][2] \in Keys(data))
    => data' = data /\ gp_code_to_name' = gp_code_to_name

\* C3: after any rows, each code seen maps to the label, the classification and
\* the name of the first row carrying it, and a row whose code was seen before
\* changes neither mapping.
C3_FirstRowWins == [](MappingsHoldFirstRows) /\ [][SeenRowChangesNothing]_vars

C3_Witness ==
    /\ pc = "process_rows"
    /\ index = 3
    /\ reader[2][2] = reader[3][2]
    /\ reader[2][3] # reader[3][3]
    /\ reader[2][4] # reader[3][4]
    /\ data = <<<<reader[2][2], <<"EVERGREENLIFE/TPP", "TPP">>>>>>
    /\ gp_code_to_name = <<<<reader[2][2], reader[2][3]>>>>

\* the output rows of the rows from i on, the codes in `seen` left out
RECURSIVE ExpectedFrom(_, _, _)
ExpectedFrom(rows, i, seen) ==
    IF i > Len(rows) THEN <<>>
    ELSE IF rows[i][2] \in seen THEN ExpectedFrom(rows, i + 1, seen)
    ELSE <<Join(<<rows[i][2],
                  IF Contains(",", rows[i][3]) THEN "\"" \o rows[i][3] \o "\""
                  ELSE rows[i][3],
                  rows[i][4],
                  get_main_system_from_value(rows[i][4])>>, ",")>>
         \o ExpectedFrom(rows, i + 1, seen \cup {rows[i][2]})

OutputWritten == entry = "process_data_file" /\ pc = "returned" /\ err = ""

\* C4: the output is the four-column header and then one row (code, name, raw
\* label, classified label) per distinct code, in the order the codes were first
\* seen; the row A1, Test Surgery, EVERGREENLIFE/TPP alone gives
\* A1,Test Surgery,EVERGREENLIFE/TPP,TPP.
C4_OutputRows ==
    OutputWritten =>
        /\ output.exists
        /\ output.content =
              <<"GP Code,GP Name,Appointment Systems,Main System">>
              \o ExpectedFrom(reader, 2, {})
        /\ Len(output.content) = 1 + Cardinality({reader[i][2] : i \in 2..Len(reader)})
        /\ reader = <<Header, <<"R1", "A1", "Test Surgery", "EVERGREENLIFE/TPP">>>>
              => output.content[2] = "A1,Test Surgery,EVERGREENLIFE/TPP,TPP"

C4_Witness ==
    /\ OutputWritten
    /\ Len(reader) = 4
    /\ reader[2][2] = "B2"
    /\ reader[3][2] = "A1"
    /\ reader[4][2] = "B2"
    /\ reader[2][4] # reader[4][4]
    /\ Len(output.content) = 3

\* C10: the two mappings have the same keys after every row, and the writer,
\* once it has opened the output file, never fails with a KeyError (a code the
\* name mapping lacks).
C10_SameKeys ==
    /\ Keys(data) = Keys(gp_code_to_name)
    /\ output.exists => err # "KeyError"

C10_Witness ==
    /\ OutputWritten
    /\ Keys(data) = {"A1", "B2"}
    /\ written = 2

(***************************************************************************)
(* The download.                                                           *)
(***************************************************************************)
\* whether the extents are the bytes from..length of the body, each once, in order
RECURSIVE BodyOnce(_, _, _)
BodyOnce(content, from, length) ==
    IF content = <<>> THEN from = length
    ELSE /\ Head(content).src = "body"
         /\ Head(content).lo = from
         /\ BodyOnce(Tail(content), Head(content).hi, length)

\* C5: after a successful download the temporary file holds the bytes of the
\* response body, each byte written once.
C5_BodyWrittenOnce ==
    pc = "downloaded" => tmp_zip.exists /\ BodyOnce(tmp_zip.content, 0, response.length)

Matches(card) == Contains("Annex 1", card.title) /\ Contains("CSV", card.title)

Matching == {i \in 1..Len(downloads) : Matches(downloads[i])}

\* C6: the resolver returns the link of the first card whose title holds both
\* "Annex 1" and "CSV"; it raises "No downloads found." exactly when there is no
\* card, and "Found N downloads. No Annex 1 CSV downloads found." exactly when
\* there are N >= 1 cards and none of them matches.
C6_FirstMatchingCard ==
    /\ pc = "link_returned" =>
          /\ Matching # {}
          /\ download_link = Some(downloads[Min(Matching)].href)
    /\ pc = "link_raised" =>
          /\ Matching = {}
          /\ (Len(downloads) = 0) <=> (err = "No downloads found.")
          /\ (Len(downloads) >= 1) <=>
                (err = "Found " \o Digits[Len(downloads) + 1]
                       \o " downloads. No Annex 1 CSV downloads found.")
          /\ Len(downloads) = 2 =>
                err = "Found 2 downloads. No Annex 1 CSV downloads found."

C6_Witness ==
    /\ pc = "link_returned"
    /\ Len(downloads) = 3
    /\ downloads[1].title = "Annex 1 (XLSX)"
    /\ downloads[2].title = "CSV - Annex 1"
    /\ downloads[3].title = "Annex 1 (CSV)"
    /\ download_link = Some("https://files.digital.nhs.uk/2.zip")

PageUrl == BASE_URL \o "/october-2025"

\* C8: with a link supplied the month page is never fetched, no card is scanned
\* and the only GET goes to the supplied link; without one, the archive GET goes
\* to the link the resolver returned, after the GET of the month page.
C8_OverrideBypassesResolver ==
    /\ zip_file_path # None =>
          /\ pc \notin {"get_page", "resolve", "link_returned", "link_raised"}
          /\ downloads = <<>>
          /\ scanned = 0
          /\ requests \in {<<>>, zip_file_path}
          /\ pc \in {"write_chunks", "downloaded"} => requests = zip_file_path
    /\ zip_file_path = None =>
          /\ pc = "link_returned" => requests = <<PageUrl>>
          /\ pc \in {"write_chunks", "downloaded"} =>
                requests = <<PageUrl>> \o download_link

C8_Witness ==
    /\ pc = "downloaded"
    /\ zip_file_path = Some(OverrideLink)
    /\ requests = <<OverrideLink>>

(***************************************************************************)
(* main                                                                    *)
(***************************************************************************)
Stages ==
    <<"download_gpad_zip_file", "unzip_gpad_zip_file", "process_data_file",
      "write_output_file", "remove_tmp_files">>

Called == {calls[i] : i \in 1..Len(calls)}

FailFast ==
    InMain =>
        /\ Len(calls) <= Len(Stages)
        /\ \A i \in 1..Len(calls) : calls[i] = Stages[i]
        /\ \A i \in 2..Len(calls) : calls[i - 1] \in completed
        /\ err # "" => pc \in {"error", "link_raised"}
        /\ (pc = "error" /\ err \notin {"ImportError", "NameError"})
              => calls # <<>> /\ calls[Len(calls)] \notin completed
        /\ "remove_tmp_files" \in Called =>
              {Stages[i] : i \in 1..4} \subseteq completed
        /\ err # "" => "remove_tmp_files" \notin Called

CleanupDeletesBoth ==
    (pc = "done" \/ (entry = "remove_tmp_files" /\ pc = "returned"))
        => ~tmp_zip.exists /\ ~unzip_dir

ErrorEndsTheRun == pc = "error" => UNCHANGED vars

\* C7: when a stage of main raises, no later stage is called, the error reaches
\* the caller, remove_tmp_files is not called and the temporary file and
\* directory stay as they are; remove_tmp_files is called only after the four
\* earlier stages have completed, and deletes both.
C7_FailFast == [](FailFast /\ CleanupDeletesBoth) /\ [][ErrorEndsTheRun]_vars

C7_Witness ==
    /\ entry = "main"
    /\ pc = "error"
    /\ err = "BadZipFile"
    /\ calls = <<"download_gpad_zip_file", "unzip_gpad_zip_file">>
    /\ tmp_zip.exists
    /\ unzip_dir

\* C9: the stages are called in order, each at most once, and a run whose
\* download and extraction have succeeded resolves the input path and reaches
\* the aggregation with it.
C9_ReachesAggregation ==
    InMain =>
        /\ \A i \in 1..Len(calls) : i <= Len(Stages) /\ calls[i] = Stages[i]
        /\ ({"download_gpad_zip_file", "unzip_gpad_zip_file"} \subseteq completed
            /\ pc \in {"error", "done"})
           => input # None /\ "process_data_file" \in Called

====
